---------------------------- MODULE Spec2Model ----------------------------
(***************************************************************************)
(* A model of the BVH accelerated ray tracer                               *)
(* (src/2026/03/03-01-BVH-Accelerated-Ray-Tracer/main.cpp): AABB, Sphere,  *)
(* the SAH BVH builder, the BVH traversal, the brute-force traversal and   *)
(* the recursive path tracer ray_color.                                    *)
(*                                                                         *)
(* Numbers.  The program computes in IEEE doubles.  The model draws every  *)
(* input (sphere centres and radii, ray origins and directions) from small *)
(* integers, so that boxes and ray coefficients are integers, and it       *)
(* carries every derived parameter t exactly, as a value                   *)
(*        (p + c * sqrt(D)) / q        with integers p, c, D >= 0, q > 0   *)
(* together with the three IEEE specials +inf, -inf and NaN that the slab  *)
(* test produces for a zero direction component.  Comparisons are decided  *)
(* exactly by sign analysis and squaring.                                  *)
(***************************************************************************)
EXTENDS Integers, Sequences, FiniteSets, TLC

--------------------------------------------------------------------------
(* Exact numbers *)

Sgn(x) == IF x > 0 THEN 1 ELSE IF x < 0 THEN -1 ELSE 0

Abs(x) == IF x < 0 THEN -x ELSE x

IMin(a, b) == IF b < a THEN b ELSE a

IMax(a, b) == IF a < b THEN b ELSE a

IsSquare(n) == \E r \in 0..n : r * r = n

ISqrt(n) == CHOOSE r \in 0..n : r * r = n

RECURSIVE GCD(_, _)
GCD(a, b) == IF b = 0 THEN a ELSE GCD(b, a % b)

\* the rational p / q, q > 0, in lowest terms
Rat(p, q) ==
    LET g == GCD(Abs(p), q)
    IN  [k |-> "fin", p |-> p \div g, c |-> 0, D |-> 0, q |-> q \div g]

\* (p + c * sqrt(D)) / q, q > 0, in lowest terms
Surd(p, c, D, q) ==
    IF c = 0 \/ D = 0 THEN Rat(p, q)
    ELSE IF IsSquare(D) THEN Rat(p + c * ISqrt(D), q)
    ELSE LET g == GCD(GCD(Abs(p), Abs(c)), q)
         IN  [k |-> "fin", p |-> p \div g, c |-> c \div g, D |-> D, q |-> q \div g]

PInf == [k |-> "pinf", p |-> 0, c |-> 0, D |-> 0, q |-> 1]

NInf == [k |-> "ninf", p |-> 0, c |-> 0, D |-> 0, q |-> 1]

NaN == [k |-> "nan", p |-> 0, c |-> 0, D |-> 0, q |-> 1]

\* sign of A + c * sqrt(D)
SignSurd1(A, c, D) ==
    LET u == IF D = 0 THEN 0 ELSE Sgn(c)
    IN  IF u = 0 THEN Sgn(A)
        ELSE IF A = 0 \/ Sgn(A) = u THEN u
        ELSE IF c * c * D > A * A THEN u
        ELSE IF c * c * D = A * A THEN 0
        ELSE Sgn(A)

\* sign of A + c1 * sqrt(D1) + c2 * sqrt(D2)
SignSurd2(A, c1, D1, c2, D2) ==
    IF c1 = 0 \/ D1 = 0 THEN SignSurd1(A, c2, D2)
    ELSE IF c2 = 0 \/ D2 = 0 THEN SignSurd1(A, c1, D1)
    ELSE LET sU == IF Sgn(c1) = Sgn(c2) THEN Sgn(c1)
                   ELSE Sgn(c1) * Sgn(c1 * c1 * D1 - c2 * c2 * D2)
         IN  IF sU = 0 THEN Sgn(A)
             ELSE IF A = 0 \/ Sgn(A) = sU THEN sU
             ELSE LET d == SignSurd1(c1 * c1 * D1 + c2 * c2 * D2 - A * A,
                                     2 * c1 * c2, D1 * D2)
                  IN  IF d > 0 THEN sU ELSE IF d = 0 THEN 0 ELSE Sgn(A)

\* sign of x - y for finite x, y
FinCmp(x, y) ==
    SignSurd2(x.p * y.q - y.p * x.q, x.c * y.q, x.D, -(y.c * x.q), y.D)

\* sign of x - y for x, y that are not NaN
Cmp(x, y) ==
    IF x.k = "fin" /\ y.k = "fin" THEN FinCmp(x, y)
    ELSE IF x.k = y.k THEN 0
    ELSE IF x.k = "ninf" \/ y.k = "pinf" THEN -1
    ELSE 1

\* the IEEE comparisons: every comparison with NaN is false
NumLt(x, y) == x.k # "nan" /\ y.k # "nan" /\ Cmp(x, y) < 0

NumLe(x, y) == x.k # "nan" /\ y.k # "nan" /\ Cmp(x, y) <= 0

NumEq(x, y) == x.k # "nan" /\ y.k # "nan" /\ Cmp(x, y) = 0

\* std::max(a, b) is (a < b) ? b : a and std::min(a, b) is (b < a) ? b : a
NumMax(a, b) == IF NumLt(a, b) THEN b ELSE a

NumMin(a, b) == IF NumLt(b, a) THEN b ELSE a

NumNeg(x) ==
    IF x.k = "fin" THEN [x EXCEPT !.p = -x.p, !.c = -x.c]
    ELSE IF x.k = "pinf" THEN NInf
    ELSE IF x.k = "ninf" THEN PInf
    ELSE NaN

\* x + y; finite operands are over the same radical, or one is rational
NumAdd(x, y) ==
    IF x.k = "fin" /\ y.k = "fin"
    THEN Surd(x.p * y.q + y.p * x.q, x.c * y.q + y.c * x.q,
              IF x.c # 0 THEN x.D ELSE y.D, x.q * y.q)
    ELSE IF x.k = "nan" \/ y.k = "nan" THEN NaN
    ELSE IF x.k = "fin" THEN y
    ELSE IF y.k = "fin" \/ x.k = y.k THEN x
    ELSE NaN

\* n / d for integers n, d as the IEEE division gives it
IntDiv(n, d) ==
    IF d # 0 THEN Rat(Sgn(d) * n, Abs(d))
    ELSE IF n > 0 THEN PInf
    ELSE IF n < 0 THEN NInf
    ELSE NaN

\* integer n times a number
NumScale(n, x) ==
    IF x.k = "fin" THEN Surd(n * x.p, n * x.c, x.D, x.q)
    ELSE IF x.k = "nan" \/ n = 0 THEN NaN
    ELSE IF (x.k = "pinf") = (n > 0) THEN PInf
    ELSE NInf

\* a finite number divided by a positive integer
NumDiv(x, n) == Surd(x.p, x.c, x.D, x.q * n)

\* the square of a finite number
NumSquare(x) == Surd(x.p * x.p + x.c * x.c * x.D, 2 * x.p * x.c, x.D, x.q * x.q)

\* x * y for finite operands over the same radical, or one of them rational
NumMul(x, y) ==
    LET D == IF x.c # 0 THEN x.D ELSE y.D
    IN  Surd(x.p * y.p + x.c * y.c * D, x.p * y.c + x.c * y.p, D, x.q * y.q)

\* x / y for rationals x and y, y not zero
RatQuot(x, y) == Rat(Sgn(y.p) * x.p * y.q, Abs(y.p) * x.q)

\* 1.0 / d for an integer d (1.0 / 0.0 is +inf)
Recip(d) == IF d = 0 THEN PInf ELSE Rat(Sgn(d), Abs(d))

--------------------------------------------------------------------------
(* Vec3, with 1-based components: v[1] is x, v[2] is y, v[3] is z *)

Axes == 1..3

VSub(a, b) == [i \in Axes |-> a[i] - b[i]]

VAdd(a, b) == [i \in Axes |-> a[i] + b[i]]

VDot(a, b) == a[1] * b[1] + a[2] * b[2] + a[3] * b[3]

\* dot product of an integer vector with a vector of numbers
VDotNum(d, n) ==
    NumAdd(NumAdd(NumScale(d[1], n[1]), NumScale(d[2], n[2])),
           NumScale(d[3], n[3]))

VNegNum(n) == [i \in Axes |-> NumNeg(n[i])]

\* Ray::at
RayAt(ray, t) ==
    [i \in Axes |-> NumAdd(Rat(ray.origin[i], 1), NumScale(ray.direction[i], t))]

--------------------------------------------------------------------------
(* AABB *)

\* The model's stand-in for the 1e30 of AABB(): larger than every coordinate.
Sentinel == 1000

\* AABB::AABB(), the empty box that seeds a merge
EmptyAABB ==
    [min_pt |-> [i \in Axes |-> Sentinel], max_pt |-> [i \in Axes |-> -Sentinel]]

\* a merge that keeps the smaller of the two max corners: a faulty variant of
\* Merge that C2 has to tell from it
MergeWrongMax(a, b) ==
    [min_pt |-> [i \in Axes |-> IMin(a.min_pt[i], b.min_pt[i])],
     max_pt |-> [i \in Axes |-> IMin(a.max_pt[i], b.max_pt[i])]]

\* a merge whose min corner is the first box's alone: a faulty variant that
\* C11 has to tell from Merge
MergeFirstMin(a, b) ==
    [min_pt |-> a.min_pt,
     max_pt |-> [i \in Axes |-> IMax(a.max_pt[i], b.max_pt[i])]]

\* AABB::merge
Merge(a, b) ==
    [min_pt |-> [i \in Axes |-> IMin(a.min_pt[i], b.min_pt[i])],
     max_pt |-> [i \in Axes |-> IMax(a.max_pt[i], b.max_pt[i])]]

\* AABB::surface_area
SurfaceArea(box) ==
    LET d == VSub(box.max_pt, box.min_pt)
    IN  2 * (d[1] * d[2] + d[2] * d[3] + d[3] * d[1])

\* the interval [t_min, t_max] of AABB::intersect after the narrowing of the
\* axes 1..k (lines 99-104), the test of line 105 left aside
RECURSIVE NarrowTo(_, _, _, _, _)
NarrowTo(box, ray, k, t_min, t_max) ==
    IF k = 0 THEN [t_min |-> t_min, t_max |-> t_max]
    ELSE LET prev == NarrowTo(box, ray, k - 1, t_min, t_max)
             inv_d == Recip(ray.direction[k])
             a0 == NumScale(box.min_pt[k] - ray.origin[k], inv_d)
             a1 == NumScale(box.max_pt[k] - ray.origin[k], inv_d)
             swap == NumLt(inv_d, Rat(0, 1))
         IN  [t_min |-> NumMax(prev.t_min, IF swap THEN a1 ELSE a0),
              t_max |-> NumMin(prev.t_max, IF swap THEN a0 ELSE a1)]

\* the loop with t_max < t_min for the test of line 105: a faulty variant
\* that C20 has to tell from SlabFrom
RECURSIVE SlabFromStrict(_, _, _, _, _)
SlabFromStrict(box, ray, i, t_min, t_max) ==
    IF i > 3 THEN [hit |-> TRUE, axes |-> 3]
    ELSE LET n == NarrowTo(box, ray, i, t_min, t_max)
         IN  IF NumLt(n.t_max, n.t_min) THEN [hit |-> FALSE, axes |-> i]
             ELSE SlabFromStrict(box, ray, i + 1, t_min, t_max)

\* the loop testing every axis against the caller's interval, the narrowed
\* one not carried from axis to axis: a faulty variant that C30 has to tell
\* from SlabFrom
SlabFromNoCarry(box, ray, i, t_min, t_max) ==
    LET empty == {k \in i..3 :
                     LET prev == NarrowTo(box, ray, i - 1, t_min, t_max)
                         inv_d == Recip(ray.direction[k])
                         a0 == NumScale(box.min_pt[k] - ray.origin[k], inv_d)
                         a1 == NumScale(box.max_pt[k] - ray.origin[k], inv_d)
                         swap == NumLt(inv_d, Rat(0, 1))
                     IN  NumLe(NumMin(prev.t_max, IF swap THEN a0 ELSE a1),
                               NumMax(prev.t_min, IF swap THEN a1 ELSE a0))}
    IN  IF empty = {} THEN [hit |-> TRUE, axes |-> 3]
        ELSE [hit |-> FALSE, axes |-> CHOOSE k \in empty : \A j \in empty : k <= j]

\* the axes, among the first `axes` ones that AABB::intersect got to, on which
\* `1.0 / ray.direction[i]` (line 99) divided by zero: the division is made for
\* every axis the loop gets to, with no test before it
ZeroDivisions(ray, axes) == {i \in 1..axes : ray.direction[i] = 0}

\* AABB::intersect, the loop from axis i on: [hit, axes], false at the first
\* axis that empties the interval; axes counts the axes the loop got to
RECURSIVE SlabFrom(_, _, _, _, _)
SlabFrom(box, ray, i, t_min, t_max) ==
    IF i > 3 THEN [hit |-> TRUE, axes |-> 3]
    ELSE LET inv_d == Recip(ray.direction[i])
             a0 == NumScale(box.min_pt[i] - ray.origin[i], inv_d)
             a1 == NumScale(box.max_pt[i] - ray.origin[i], inv_d)
             swap == NumLt(inv_d, Rat(0, 1))
             t0 == IF swap THEN a1 ELSE a0
             t1 == IF swap THEN a0 ELSE a1
             lo == NumMax(t_min, t0)
             hi == NumMin(t_max, t1)
         IN  IF NumLe(hi, lo) THEN [hit |-> FALSE, axes |-> i]
             ELSE SlabFrom(box, ray, i + 1, lo, hi)

AABBIntersect(box, ray, t_min, t_max) == SlabFrom(box, ray, 1, t_min, t_max).hit

--------------------------------------------------------------------------
(* HitRecord and Sphere *)

\* `HitRecord rec;` before any intersection wrote it
NoRec ==
    [t |-> NaN, point |-> [i \in Axes |-> NaN], normal |-> [i \in Axes |-> NaN],
     front_face |-> FALSE,
     mat |-> [type |-> "NONE", albedo |-> [i \in Axes |-> NaN], ior |-> Rat(0, 1)]]

\* Sphere::bounding_box
BoundingBox(s) ==
    [min_pt |-> [i \in Axes |-> s.center[i] - s.radius],
     max_pt |-> [i \in Axes |-> s.center[i] + s.radius]]

\* set_face_normal without the flip of the normal: a faulty variant that C9
\* has to tell from SetFaceNormal
SetFaceNormalKeep(rec, ray, outward_normal) ==
    [rec EXCEPT !.front_face = NumLt(VDotNum(ray.direction, outward_normal), Rat(0, 1)),
                !.normal = outward_normal]

\* HitRecord::set_face_normal
SetFaceNormal(rec, ray, outward_normal) ==
    LET ff == NumLt(VDotNum(ray.direction, outward_normal), Rat(0, 1))
    IN  [rec EXCEPT !.front_face = ff,
                    !.normal = IF ff THEN outward_normal ELSE VNegNum(outward_normal)]

\* Sphere::intersect without the second root: a faulty variant that C28 has to
\* tell from SphereIntersect
SphereIntersectNearOnly(s, ray, t_min, t_max, rec) ==
    LET oc == VSub(ray.origin, s.center)
        a == VDot(ray.direction, ray.direction)
        half_b == VDot(oc, ray.direction)
        c == VDot(oc, oc) - s.radius * s.radius
        discriminant == half_b * half_b - a * c
        t == Surd(-half_b, -1, discriminant, a)
        point == RayAt(ray, t)
        outward_normal ==
            [i \in Axes |-> NumDiv(NumAdd(point[i], Rat(-s.center[i], 1)), s.radius)]
    IN  IF discriminant < 0 THEN [hit |-> FALSE, rec |-> rec]
        ELSE IF NumLt(t, t_min) \/ NumLt(t_max, t) THEN [hit |-> FALSE, rec |-> rec]
        ELSE [hit |-> TRUE,
              rec |-> SetFaceNormal([rec EXCEPT !.t = t, !.point = point, !.mat = s.mat],
                                    ray, outward_normal)]

\* Sphere::intersect: [hit, rec]; on a miss rec is the caller's record untouched
SphereIntersect(s, ray, t_min, t_max, rec) ==
    LET oc == VSub(ray.origin, s.center)
        a == VDot(ray.direction, ray.direction)
        half_b == VDot(oc, ray.direction)
        c == VDot(oc, oc) - s.radius * s.radius
        discriminant == half_b * half_b - a * c
        near == Surd(-half_b, -1, discriminant, a)
        far == Surd(-half_b, 1, discriminant, a)
        out(t) == NumLt(t, t_min) \/ NumLt(t_max, t)
        t == IF out(near) THEN far ELSE near
        point == RayAt(ray, t)
        outward_normal ==
            [i \in Axes |-> NumDiv(NumAdd(point[i], Rat(-s.center[i], 1)), s.radius)]
    IN  IF discriminant < 0 THEN [hit |-> FALSE, rec |-> rec]
        ELSE IF out(near) /\ out(far) THEN [hit |-> FALSE, rec |-> rec]
        ELSE [hit |-> TRUE,
              rec |-> SetFaceNormal([rec EXCEPT !.t = t, !.point = point, !.mat = s.mat],
                                    ray, outward_normal)]

--------------------------------------------------------------------------
(* BVHNode and the BVH builder *)

\* BVHNode::BVHNode()
NewNode ==
    [bbox |-> EmptyAABB, left |-> -1, right |-> -1, sphere_idx |-> -1,
     is_leaf |-> FALSE]

\* C++ vectors are 0-based: element i of a vector v
At(v, i) == v[i + 1]

NUM_BUCKETS == 12

RECURSIVE Perms(_)
Perms(S) ==
    IF S = {} THEN {<<>>}
    ELSE UNION {{<<x>> \o q : q \in Perms(S \ {x})} : x \in S}

\* the arrangement p written to the front of indices instead of to
\* [start, start + Len(p)): a faulty variant that C16 has to tell from Splice
SpliceAtFront(ind, start, p) ==
    [j \in 1..Len(ind) |-> IF j <= Len(p) THEN p[j] ELSE ind[j]]

\* indices with positions start .. start + Len(p) - 1 overwritten by p
Splice(ind, start, p) ==
    [j \in 1..Len(ind) |->
        IF j - 1 >= start /\ j - 1 < start + Len(p) THEN p[j - start] ELSE ind[j]]

RangeSet(ind, start, end) == {At(ind, j) : j \in start..(end - 1)}

\* std::sort of the whole of indices instead of indices[start, end): a faulty
\* variant that C27 has to tell from SortOutcomes
SortOutcomesWhole(sph, ind, start, end, axis) ==
    LET key(v) == At(sph, v).center[axis + 1]
        sorted(q) == \A j \in 1..(Len(q) - 1) : ~(key(q[j + 1]) < key(q[j]))
    IN  {Splice(ind, 0, q) : q \in {r \in Perms(RangeSet(ind, 0, Len(ind))) : sorted(r)}}

\* std::sort of indices[start, end) by center[axis]: any arrangement of the
\* range in which no element is less than its predecessor (the order of equal
\* keys is unspecified)
SortOutcomes(sph, ind, start, end, axis) ==
    LET key(v) == At(sph, v).center[axis + 1]
        sorted(q) == \A j \in 1..(Len(q) - 1) : ~(key(q[j + 1]) < key(q[j]))
    IN  {Splice(ind, start, q) : q \in {r \in Perms(RangeSet(ind, start, end)) : sorted(r)}}

\* std::partition of indices[start, end): the elements satisfying the
\* predicate (the set L) first, in an unspecified order on each side
PartitionOutcomes(ind, start, end, L) ==
    LET R == RangeSet(ind, start, end) \ L
    IN  {[indices |-> Splice(ind, start, pl \o pr), mid |-> start + Cardinality(L)] :
            pl \in Perms(L), pr \in Perms(R)}

\* the 1e-10 of line 280 in the model's unit of length: the centres are
\* integers, and two centres one unit apart are nearer than epsilon
Epsilon == 2

\* `extent < 1e-10`
BelowEpsilon(extent) == extent < Epsilon

\* the bucket of a centre coordinate c (line 289-290)
BucketOf(c, lo, extent) ==
    LET b == (NUM_BUCKETS * (c - lo)) \div extent
    IN  IF b >= NUM_BUCKETS THEN NUM_BUCKETS - 1 ELSE b

\* the buckets after the assignment loop (lines 287-293)
Buckets(sph, ind, start, end, axis, centroid_bbox) ==
    LET lo == centroid_bbox.min_pt[axis + 1]
        extent == centroid_bbox.max_pt[axis + 1] - lo
        fill[i \in start..end] ==
            IF i = start
            THEN [b \in 0..(NUM_BUCKETS - 1) |-> [bbox |-> EmptyAABB, count |-> 0]]
            ELSE LET s == At(sph, At(ind, i - 1))
                     b == BucketOf(s.center[axis + 1], lo, extent)
                     prev == fill[i - 1]
                 IN  [prev EXCEPT ![b] = [bbox |-> Merge(prev[b].bbox, BoundingBox(s)),
                                          count |-> prev[b].count + 1]]
    IN  fill[end]

\* costs[i] of the candidate split after bucket i (lines 297-310)
SplitCost(buckets, i) ==
    LET pre[j \in 0..(NUM_BUCKETS - 1)] ==
            IF j = 0 THEN [bbox |-> Merge(EmptyAABB, buckets[0].bbox),
                           count |-> buckets[0].count]
            ELSE LET b0 == pre[j - 1]
                 IN  [bbox |-> Merge(b0.bbox, buckets[j].bbox),
                      count |-> b0.count + buckets[j].count]
        suf[j \in 0..NUM_BUCKETS] ==
            IF j = NUM_BUCKETS THEN [bbox |-> EmptyAABB, count |-> 0]
            ELSE LET b1 == suf[j + 1]
                 IN  [bbox |-> Merge(b1.bbox, buckets[j].bbox),
                      count |-> b1.count + buckets[j].count]
        left == pre[i]
        right == suf[i + 1]
    IN  [cost |-> NumAdd(Rat(1, 8),
                         IntDiv(left.count * SurfaceArea(left.bbox)
                                  + right.count * SurfaceArea(right.bbox),
                                SurfaceArea(Merge(left.bbox, right.bbox)))),
         cnt0 |-> left.count, cnt1 |-> right.count,
         area_total |-> SurfaceArea(Merge(left.bbox, right.bbox))]

\* min_bucket with <= for the comparison of line 316, the last candidate of
\* least cost: a faulty variant that C17 has to tell from MinBucket
MinBucketLastOfTies(buckets) ==
    LET costs == [i \in 0..(NUM_BUCKETS - 2) |-> SplitCost(buckets, i).cost]
        best[i \in 0..(NUM_BUCKETS - 2)] ==
            IF i = 0 THEN [min_bucket |-> 0, min_cost |-> costs[0]]
            ELSE LET prev == best[i - 1]
                 IN  IF NumLe(costs[i], prev.min_cost)
                     THEN [min_bucket |-> i, min_cost |-> costs[i]]
                     ELSE prev
    IN  best[NUM_BUCKETS - 2].min_bucket

\* min_bucket: the first candidate of least cost (lines 313-320)
MinBucket(buckets) ==
    LET costs == [i \in 0..(NUM_BUCKETS - 2) |-> SplitCost(buckets, i).cost]
        best[i \in 0..(NUM_BUCKETS - 2)] ==
            IF i = 0 THEN [min_bucket |-> 0, min_cost |-> costs[0]]
            ELSE LET prev == best[i - 1]
                 IN  IF NumLt(costs[i], prev.min_cost)
                     THEN [min_bucket |-> i, min_cost |-> costs[i]]
                     ELSE prev
    IN  best[NUM_BUCKETS - 2].min_bucket

\* the magnitude from which the model's numbers are as far apart as doubles
\* are: below it the model computes exactly
FarBase == 512

\* the distance of neighbouring doubles at the magnitude FarBase. Doubles near
\* 1e10 are 1.9e-6 apart, far more than the 1e-10 of line 280: Spacing is
\* more than Epsilon
Spacing == 4

\* the double nearest to the rational x, ties to the even neighbour: the
\* result of an arithmetic operation whose exact value is x
RoundDouble(x) ==
    IF x.k # "fin" \/ x.c # 0 \/ Abs(x.p) < FarBase * x.q THEN x
    ELSE LET unit == x.q * Spacing
             lower == x.p \div unit
             rest == 2 * (x.p - lower * unit)
             n == IF rest < unit THEN lower
                  ELSE IF rest > unit THEN lower + 1
                  ELSE IF lower % 2 = 0 THEN lower ELSE lower + 1
         IN  Rat(n * Spacing, 1)

\* split_val (line 322) computed without rounding: a variant that C26 has to
\* tell from SplitVal
SplitValExact(lo, min_bucket, extent) ==
    NumAdd(Rat(lo, 1), Rat((min_bucket + 1) * extent, NUM_BUCKETS))

\* split_val (line 322): a sum of doubles, rounded
SplitVal(lo, min_bucket, extent) ==
    RoundDouble(NumAdd(Rat(lo, 1), Rat((min_bucket + 1) * extent, NUM_BUCKETS)))

\* a fallback split at `start`: a faulty variant that C4 has to tell from Median
MedianAtStart(start, count) == start

\* the median position of the fallback splits (lines 272, 283, 330)
Median(start, count) == start + count \div 2

\* BVH::sah_split: the set of outcomes [indices, mid] it can return
SahSplit(sph, ind, start, end, axis, centroid_bbox) ==
    LET count == end - start
        lo == centroid_bbox.min_pt[axis + 1]
        extent == centroid_bbox.max_pt[axis + 1] - lo
        min_bucket == MinBucket(Buckets(sph, ind, start, end, axis, centroid_bbox))
        split_val == SplitVal(lo, min_bucket, extent)
        below == {v \in RangeSet(ind, start, end) :
                     NumLt(Rat(At(sph, v).center[axis + 1], 1), split_val)}
    IN  IF count <= 4
        THEN {[indices |-> o, mid |-> Median(start, count)] :
                 o \in SortOutcomes(sph, ind, start, end, axis)}
        ELSE IF BelowEpsilon(extent)
        THEN {[indices |-> ind, mid |-> Median(start, count)]}
        ELSE {[indices |-> o.indices,
               mid |-> IF o.mid = start \/ o.mid = end
                       THEN Median(start, count) ELSE o.mid] :
                 o \in PartitionOutcomes(ind, start, end, below)}

\* the box of the centres of indices[start, end) (lines 231-240)
CentroidBBox(sph, ind, start, end) ==
    LET acc[i \in start..end] ==
            IF i = start THEN EmptyAABB
            ELSE LET c == At(sph, At(ind, i - 1)).center
                 IN  Merge(acc[i - 1], [min_pt |-> c, max_pt |-> c])
    IN  acc[end]

\* the split axis with >= for the comparisons of lines 245-246, ties going to
\* the higher axis: a faulty variant that C19 has to tell from SplitAxis
SplitAxisTiesUp(centroid_bbox) ==
    LET extent == VSub(centroid_bbox.max_pt, centroid_bbox.min_pt)
        axis1 == IF extent[2] >= extent[1] THEN 1 ELSE 0
    IN  IF extent[3] >= extent[axis1 + 1] THEN 2 ELSE axis1

\* the split axis, 0-based (lines 243-246)
SplitAxis(centroid_bbox) ==
    LET extent == VSub(centroid_bbox.max_pt, centroid_bbox.min_pt)
        axis1 == IF extent[2] > extent[1] THEN 1 ELSE 0
    IN  IF extent[3] > extent[axis1 + 1] THEN 2 ELSE axis1

--------------------------------------------------------------------------
(* BVH traversal and the brute-force traversal *)

\* BVH::intersect_node: [hit, rec, tests, visited]; visited lists the calls in
\* the order they were made: the node, the t_max the call got, the answer of
\* the node's box test and the axes that test got to.  NodeLeaf is the leaf
\* case (line 348) given the sphere's answer r; NodeRight is lines 359-360
\* given the left answer L; NodeResult is lines 363-365 given both.
RECURSIVE IntersectNode(_, _, _, _, _, _, _, _)
Visit(node_idx, t_max, box) ==
    [node |-> node_idx, t_max |-> t_max, box |-> box.hit, axes |-> box.axes]

NodeLeaf(seen, tests, r) ==
    [hit |-> r.hit, rec |-> r.rec, tests |-> tests + 1, visited |-> <<seen>>]

\* `rec = rec_left` also when neither child was hit: a faulty variant that C29
\* has to tell from NodeResult
NodeResultCopiesLeft(seen, rec, L, R) ==
    LET all == <<seen>> \o L.visited \o R.visited
    IN  IF R.hit THEN [hit |-> TRUE, rec |-> R.rec, tests |-> R.tests, visited |-> all]
        ELSE [hit |-> L.hit, rec |-> L.rec, tests |-> R.tests, visited |-> all]

\* lines 363-365: the caller's record is written from the record of the
\* child that was hit, the right one first
NodeResult(seen, rec, L, R) ==
    LET all == <<seen>> \o L.visited \o R.visited
    IN  IF R.hit THEN [hit |-> TRUE, rec |-> R.rec, tests |-> R.tests, visited |-> all]
        ELSE IF L.hit THEN [hit |-> TRUE, rec |-> L.rec, tests |-> R.tests, visited |-> all]
        ELSE [hit |-> FALSE, rec |-> rec, tests |-> R.tests, visited |-> all]

\* the right child searched with the caller's t_max whatever the left child
\* found: a faulty variant that C14 has to tell from NodeRight
NodeRightNoShrink(nds, sph, seen, ray, t_min, t_max, rec, L) ==
    LET node == At(nds, seen.node)
    IN  NodeResult(seen, rec, L,
                   IF node.right >= 0
                   THEN IntersectNode(nds, sph, node.right, ray, t_min, t_max,
                                      NoRec, L.tests)
                   ELSE [hit |-> FALSE, rec |-> NoRec, tests |-> L.tests,
                         visited |-> <<>>])

NodeRight(nds, sph, seen, ray, t_min, t_max, rec, L) ==
    LET node == At(nds, seen.node)
        t_closest == IF L.hit THEN L.rec.t ELSE t_max
    IN  NodeResult(seen, rec, L,
                   IF node.right >= 0
                   THEN IntersectNode(nds, sph, node.right, ray, t_min, t_closest,
                                      NoRec, L.tests)
                   ELSE [hit |-> FALSE, rec |-> NoRec, tests |-> L.tests,
                         visited |-> <<>>])

\* lines 345-361 given the answer box of the node's box test
NodeBody(nds, sph, node_idx, ray, t_min, t_max, rec, tests, box) ==
    LET node == At(nds, node_idx)
    IN  IF ~box.hit
        THEN [hit |-> FALSE, rec |-> rec, tests |-> tests + 1,
              visited |-> <<Visit(node_idx, t_max, box)>>]
        ELSE IF node.is_leaf
        THEN NodeLeaf(Visit(node_idx, t_max, box), tests,
                      SphereIntersect(At(sph, node.sphere_idx), ray, t_min, t_max, rec))
        ELSE NodeRight(nds, sph, Visit(node_idx, t_max, box), ray, t_min, t_max, rec,
                       IF node.left >= 0
                       THEN IntersectNode(nds, sph, node.left, ray, t_min, t_max,
                                          NoRec, tests + 1)
                       ELSE [hit |-> FALSE, rec |-> NoRec, tests |-> tests + 1,
                             visited |-> <<>>])

\* intersect_node that goes on below a node whose box test failed: a faulty
\* variant that C15 has to tell from IntersectNode
IntersectNodeNoPrune(nds, sph, node_idx, ray, t_min, t_max, rec, tests) ==
    LET box == SlabFrom(At(nds, node_idx).bbox, ray, 1, t_min, t_max)
        r == NodeBody(nds, sph, node_idx, ray, t_min, t_max, rec, tests,
                      [hit |-> TRUE, axes |-> box.axes])
    IN  [r EXCEPT !.visited = <<Visit(node_idx, t_max, box)>> \o Tail(r.visited)]

IntersectNode(nds, sph, node_idx, ray, t_min, t_max, rec, tests) ==
    NodeBody(nds, sph, node_idx, ray, t_min, t_max, rec, tests,
             SlabFrom(At(nds, node_idx).bbox, ray, 1, t_min, t_max))

\* BVH::intersect without the nodes.empty() test: a faulty variant that C3 has
\* to tell from BVHIntersect
BVHIntersectNoGuard(nds, sph, ray, t_min, t_max, rec, tests) ==
    IF nds = <<>>
    THEN [hit |-> FALSE, rec |-> rec, tests |-> tests + 1,
          visited |-> <<Visit(0, t_max, [hit |-> FALSE, axes |-> 0])>>]
    ELSE IntersectNode(nds, sph, 0, ray, t_min, t_max, rec, tests)

\* BVH::intersect
BVHIntersect(nds, sph, ray, t_min, t_max, rec, tests) ==
    IF nds = <<>>
    THEN [hit |-> FALSE, rec |-> rec, tests |-> tests, visited |-> <<>>]
    ELSE IntersectNode(nds, sph, 0, ray, t_min, t_max, rec, tests)

\* the loop of Scene::intersect_brute from sphere i (1-based) on, with the
\* locals hit, closest and tmp and the caller's rec
RECURSIVE BruteFrom(_, _, _, _, _, _, _, _)
BruteStep(sph, ray, t_min, i, hit, closest, rec, r) ==
    IF r.hit
    THEN BruteFrom(sph, ray, t_min, i + 1, TRUE, r.rec.t, r.rec, r.rec)
    ELSE BruteFrom(sph, ray, t_min, i + 1, hit, closest, rec, r.rec)

BruteFrom(sph, ray, t_min, i, hit, closest, rec, tmp) ==
    IF i > Len(sph) THEN [hit |-> hit, rec |-> rec]
    ELSE BruteStep(sph, ray, t_min, i, hit, closest, rec,
                   SphereIntersect(sph[i], ray, t_min, closest, tmp))

\* Scene::intersect_brute: [hit, rec]
IntersectBrute(sph, ray, t_min, t_max, rec) ==
    BruteFrom(sph, ray, t_min, 1, FALSE, t_max, rec, NoRec)

--------------------------------------------------------------------------
(* Inputs *)

MaxSpheres == 5

MaxTraceSpheres == 2

MaxDepth == 2

MaxRejects == 2

DIFFUSE ==
    [type |-> "DIFFUSE", albedo |-> <<Rat(4, 5), Rat(3, 10), Rat(3, 10)>>,
     ior |-> Rat(0, 1)]

METAL ==
    [type |-> "METAL", albedo |-> <<Rat(4, 5), Rat(3, 5), Rat(1, 5)>>,
     ior |-> Rat(0, 1)]

GLASS ==
    [type |-> "GLASS", albedo |-> <<Rat(1, 1), Rat(1, 1), Rat(1, 1)>>,
     ior |-> Rat(3, 2)]

SpherePool ==
    {[center |-> <<0, 0, 0>>, radius |-> 1, mat |-> DIFFUSE],
     [center |-> <<2, 0, -2>>, radius |-> 1, mat |-> METAL],
     [center |-> <<1, 3, 2>>, radius |-> 2, mat |-> GLASS],
     [center |-> <<0, 0, 0>>, radius |-> 2, mat |-> DIFFUSE]}

\* the scenes of up to n spheres, no sphere of the pool placed twice (two
\* spheres of the pool share their centre)
Scenes(n) ==
    {sc \in UNION {[1..m -> SpherePool] : m \in 0..n} :
        \A i, j \in 1..Len(sc) : sc[i] = sc[j] => i = j}

\* the scenes of the builder's runs: the three spheres with distinct centres,
\* repeated at will, so that centroids coincide in some ranges and all three
\* axes are split on
BuildPool == {s \in SpherePool : s.center # <<0, 0, 0>> \/ s.radius = 1}

BuildScenes(n) == UNION {[1..m -> BuildPool] : m \in 0..n}

\* spheres whose centres differ by less than epsilon
NearPool ==
    {[center |-> <<0, 0, 0>>, radius |-> 1, mat |-> DIFFUSE],
     [center |-> <<1, 0, 0>>, radius |-> 1, mat |-> DIFFUSE]}

NearScenes(n) == [1..n -> NearPool]

\* the scene of n spheres of radius zero in a row along the x axis
FlatScenes(n) ==
    {[i \in 1..n |-> [center |-> <<2 * i, 0, 0>>, radius |-> 0, mat |-> DIFFUSE]]}

\* the scene of one sphere at FarBase + 2 * Spacing and n - 1 spheres one
\* Spacing further along the x axis: centres that are neighbouring doubles
FarScenes(n) ==
    {[i \in 1..n |->
        [center |-> <<FarBase + 2 * Spacing + (IF i = 1 THEN 0 ELSE Spacing), 0, 0>>,
         radius |-> 1, mat |-> DIFFUSE]]}

Dirs == {d \in {-1, 0, 1} \X {-1, 0, 1} \X {-1, 0, 1} : d # <<0, 0, 0>>}

Origins ==
    {<<-3, 0, 0>>, <<-3, 1, 0>>, <<0, 0, 0>>, <<2, 0, 2>>, <<1, 3, -3>>}

Rays == {[origin |-> o, direction |-> d] : o \in Origins, d \in Dirs}

\* the [t_min, t_max] of ray_color (line 447); 1000 stands for its 1e10, beyond
\* every hit of the model's scenes
RenderTMin == Rat(1, 1000)

RenderTMax == Rat(1000, 1)

Intervals ==
    {<<Rat(0, 1), Rat(2, 1)>>, <<Rat(0, 1), Rat(4, 1)>>, <<RenderTMin, Rat(4, 1)>>,
     <<Rat(4, 1), RenderTMax>>, <<RenderTMin, RenderTMax>>}

\* the caller's HitRecord at a direct query: a fresh one, or one an earlier
\* query filled
StaleRec ==
    [t |-> Rat(7, 1), point |-> [i \in Axes |-> Rat(7, 1)],
     normal |-> [i \in Axes |-> IF i = 1 THEN Rat(1, 1) ELSE Rat(0, 1)],
     front_face |-> TRUE, mat |-> METAL]

CallerRecs == {NoRec, StaleRec}

RenderRays ==
    {[origin |-> <<-3, 0, 0>>, direction |-> <<1, 0, 0>>],
     [origin |-> <<-3, 0, 0>>, direction |-> <<0, 0, 1>>],
     [origin |-> <<2, 0, 2>>, direction |-> <<0, 0, -1>>],
     [origin |-> <<2, 0, 2>>, direction |-> <<1, 0, 0>>],
     [origin |-> <<1, 3, -3>>, direction |-> <<0, 0, 1>>],
     [origin |-> <<1, 3, 2>>, direction |-> <<0, 0, -1>>],
     [origin |-> <<2, 4, 2>>, direction |-> <<0, 0, -1>>]}

\* values of rand01() (line 375), a draw from [0, 1)
Draws == {Rat(0, 1), Rat(1, 25), Rat(1, 2)}

--------------------------------------------------------------------------
(* State *)

VARIABLES
    pc,          \* where main is: "start", "generated", "building", "ready"
    spheres,     \* Scene::spheres
    bvh,         \* Scene::bvh: "null" or "set"
    nodes,       \* BVH::nodes
    indices,     \* the index vector of the BVH constructor
    stack,       \* the active calls of BVH::build, innermost last
    ret,         \* the value the last finished build call returned, or -1
    query,       \* the last direct intersect / intersect_brute pair and its results
    rcStack,     \* the active calls of ray_color, innermost last
    rc           \* the counters and the result of the current ray_color call tree

vars == <<pc, spheres, bvh, nodes, indices, stack, ret, query, rcStack, rc>>

buildVars == <<nodes, indices, stack, ret>>

NoQuery == [made |-> FALSE]

\* rc.glass when the step of ray_color just taken was not its GLASS branch
NoGlass == [seen |-> FALSE]

\* rc.metal when the step of ray_color just taken was not its METAL branch
NoMetal == [seen |-> FALSE]

RcIdle ==
    [depth0 |-> 0, use_bvh |-> FALSE, total_tests |-> 0, draws |-> 0, queries |-> 0,
     null_deref |-> FALSE, glass |-> NoGlass, metal |-> NoMetal, result |-> "none",
     last |-> "none"]

Init ==
    /\ pc = "start"
    /\ spheres = <<>>
    /\ bvh = "null"
    /\ nodes = <<>>
    /\ indices = <<>>
    /\ stack = <<>>
    /\ ret = -1
    /\ query = NoQuery
    /\ rcStack = <<>>
    /\ rc = RcIdle

--------------------------------------------------------------------------
(* Scene construction and BVH::build *)

\* generate_scene: a Scene with its spheres and a null bvh
Generate(n) ==
    /\ pc = "start"
    /\ \E sc \in Scenes(n) : spheres' = sc
    /\ pc' = "generated"
    /\ UNCHANGED <<bvh, nodes, indices, stack, ret, query, rcStack, rc>>

GenerateScene == Generate(MaxTraceSpheres)

GenerateLargeScene ==
    /\ pc = "start"
    /\ \E sc \in BuildScenes(MaxSpheres) \cup NearScenes(MaxSpheres)
                    \cup FlatScenes(MaxSpheres) \cup FarScenes(MaxSpheres) :
          spheres' = sc
    /\ pc' = "generated"
    /\ UNCHANGED <<bvh, nodes, indices, stack, ret, query, rcStack, rc>>

Frame(start, end) ==
    [node_idx |-> -1, start |-> start, end |-> end, axis |-> -1, mid |-> -1,
     left_child |-> -1, at |-> "enter"]

Top == stack[Len(stack)]

Pop == SubSeq(stack, 1, Len(stack) - 1)

\* a leaf for ranges of up to two spheres: a faulty variant that C10 has to
\* tell from IsLeafRange
LeafUpToTwo(count) == count <= 2

\* `count == 1` (line 222)
IsLeafRange(count) == count = 1

\* Scene::build_bvh up to the first call of build (lines 206-212, 414)
BuildBvh ==
    /\ pc = "generated"
    /\ IF spheres = <<>>
       THEN /\ bvh' = "set"
            /\ pc' = "ready"
            /\ UNCHANGED <<indices, stack>>
       ELSE /\ indices' = [i \in 1..Len(spheres) |-> i - 1]
            /\ stack' = <<Frame(0, Len(spheres))>>
            /\ pc' = "building"
            /\ UNCHANGED bvh
    /\ nodes' = <<>>
    /\ ret' = -1
    /\ UNCHANGED <<spheres, query, rcStack, rc>>

\* build, count == 1: the leaf (lines 217-228)
BuildLeaf ==
    /\ pc = "building" /\ stack # <<>> /\ Top.at = "enter"
    /\ IsLeafRange(Top.end - Top.start)
    /\ LET node_idx == Len(nodes)
           sphere_idx == At(indices, Top.start)
       IN  /\ nodes' = Append(nodes, [NewNode EXCEPT !.is_leaf = TRUE,
                                                      !.sphere_idx = sphere_idx,
                                                      !.bbox = BoundingBox(At(spheres, sphere_idx))])
           /\ ret' = node_idx
    /\ stack' = Pop
    /\ UNCHANGED <<pc, spheres, bvh, indices, query, rcStack, rc>>

\* build, count != 1: the new node, the split and the call for the left range
\* (lines 217-251)
BuildSplit ==
    /\ pc = "building" /\ stack # <<>> /\ Top.at = "enter"
    /\ ~IsLeafRange(Top.end - Top.start)
    /\ Len(nodes) < 2 * Len(spheres)
    /\ LET node_idx == Len(nodes)
           centroid_bbox == CentroidBBox(spheres, indices, Top.start, Top.end)
           axis == SplitAxis(centroid_bbox)
       IN  \E o \in SahSplit(spheres, indices, Top.start, Top.end, axis, centroid_bbox) :
              /\ indices' = o.indices
              /\ nodes' = Append(nodes, NewNode)
              /\ stack' = Append(Append(Pop, [Top EXCEPT !.node_idx = node_idx,
                                                         !.axis = axis,
                                                         !.mid = o.mid,
                                                         !.at = "left"]),
                                 Frame(Top.start, o.mid))
    /\ UNCHANGED <<pc, spheres, bvh, ret, query, rcStack, rc>>

\* build after the left call returned: the call for the right range (line 252)
BuildRight ==
    /\ pc = "building" /\ stack # <<>> /\ Top.at = "left" /\ ret # -1
    /\ stack' = Append(Append(Pop, [Top EXCEPT !.left_child = ret, !.at = "right"]),
                       Frame(Top.mid, Top.end))
    /\ ret' = -1
    /\ UNCHANGED <<pc, spheres, bvh, nodes, indices, query, rcStack, rc>>

\* a node linked to its left child on both sides: a faulty variant that C25
\* has to tell from LinkNode
LinkNodeLeftTwice(nds, node_idx, left_child, right_child) ==
    [nds EXCEPT ![node_idx + 1] =
        [@ EXCEPT !.left = left_child,
                  !.right = left_child,
                  !.is_leaf = FALSE,
                  !.bbox = Merge(At(nds, left_child).bbox, At(nds, right_child).bbox)]]

\* the node's links and box (lines 254-257)
LinkNode(nds, node_idx, left_child, right_child) ==
    [nds EXCEPT ![node_idx + 1] =
        [@ EXCEPT !.left = left_child,
                  !.right = right_child,
                  !.is_leaf = FALSE,
                  !.bbox = Merge(At(nds, left_child).bbox, At(nds, right_child).bbox)]]

\* build after the right call returned: the node's links and box (lines 254-259)
BuildMerge ==
    /\ pc = "building" /\ stack # <<>> /\ Top.at = "right" /\ ret # -1
    /\ LET left_child == Top.left_child
           right_child == ret
       IN  nodes' = LinkNode(nodes, Top.node_idx, left_child, right_child)
    /\ ret' = Top.node_idx
    /\ stack' = Pop
    /\ UNCHANGED <<pc, spheres, bvh, indices, query, rcStack, rc>>

\* build_bvh that drops the BVH it built: a faulty variant that C7 has to tell
\* from BuildDone
BuildDoneNotStored ==
    /\ pc = "building" /\ stack = <<>> /\ ret # -1
    /\ pc' = "ready"
    /\ indices' = <<>>
    /\ ret' = -1
    /\ UNCHANGED <<spheres, bvh, nodes, stack, query, rcStack, rc>>

\* the constructor returns and build_bvh stores the BVH (line 414)
BuildDone ==
    /\ pc = "building" /\ stack = <<>> /\ ret # -1
    /\ bvh' = "set"
    /\ pc' = "ready"
    /\ indices' = <<>>
    /\ ret' = -1
    /\ UNCHANGED <<spheres, nodes, stack, query, rcStack, rc>>

NextBuild ==
    \/ GenerateLargeScene
    \/ BuildBvh
    \/ BuildLeaf
    \/ BuildSplit
    \/ BuildRight
    \/ BuildMerge
    \/ BuildDone

SpecBuild == Init /\ [][NextBuild]_vars

--------------------------------------------------------------------------
(* Direct ray queries *)

\* an answer [hit, rec, tests, visited] marked as got through a live bvh
Answer(r, tests, visited) ==
    [hit |-> r.hit, rec |-> r.rec, tests |-> tests, visited |-> visited,
     null_deref |-> FALSE]

BvhAnswer(r) == Answer(r, r.tests, r.visited)

\* Scene::intersect_bvh: the outcomes of bvh->intersect.  Through a null bvh
\* the call is undefined: any answer, marked null_deref.
SceneIntersectBvh(bvhp, nds, sph, ray, t_min, t_max, rec, tests) ==
    IF bvhp = "null"
    THEN {[hit |-> h, rec |-> rec, tests |-> tests, visited |-> <<>>, null_deref |-> TRUE] :
             h \in BOOLEAN}
    ELSE {BvhAnswer(BVHIntersect(nds, sph, ray, t_min, t_max, rec, tests))}

\* a query that moves the child it hit to the front of the root: a faulty
\* variant that C8 has to tell from Query
QueryReordering ==
    /\ pc = "ready" /\ query = NoQuery /\ rc = RcIdle
    /\ \E ray \in Rays, iv \in Intervals, rec \in CallerRecs :
          \E b \in SceneIntersectBvh(bvh, nodes, spheres, ray, iv[1], iv[2], rec, 0) :
             /\ query' = [made |-> TRUE, ray |-> ray, t_min |-> iv[1], t_max |-> iv[2],
                          rec |-> rec, bvh |-> b,
                          brute |-> IntersectBrute(spheres, ray, iv[1], iv[2], rec)]
             /\ nodes' = IF b.hit /\ Len(nodes) >= 3
                         THEN [nodes EXCEPT ![1] = [@ EXCEPT !.left = nodes[1].right,
                                                             !.right = nodes[1].left]]
                         ELSE nodes
    /\ UNCHANGED <<pc, spheres, bvh, indices, stack, ret, rcStack, rc>>

\* one ray put to both traversals, as the comparison render does per pixel.
\* The scene is read-only once built, so every query and every ray_color call
\* is independent of the calls before it: a run of the model follows one call.
Query ==
    /\ pc = "ready" /\ query = NoQuery /\ rc = RcIdle
    /\ \E ray \in Rays, iv \in Intervals, rec \in CallerRecs :
          \E b \in SceneIntersectBvh(bvh, nodes, spheres, ray, iv[1], iv[2], rec, 0) :
             query' = [made |-> TRUE, ray |-> ray, t_min |-> iv[1], t_max |-> iv[2],
                       rec |-> rec, bvh |-> b,
                       brute |-> IntersectBrute(spheres, ray, iv[1], iv[2], rec)]
    /\ UNCHANGED <<pc, spheres, bvh, nodes, indices, stack, ret, rcStack, rc>>

--------------------------------------------------------------------------
(* ray_color *)

\* the scene query of ray_color (lines 445-449): outcomes [hit, rec, tests]
RayColorHit(ray, use_bvh) ==
    IF use_bvh
    THEN SceneIntersectBvh(bvh, nodes, spheres, ray, RenderTMin, RenderTMax, NoRec, 0)
    ELSE {Answer(IntersectBrute(spheres, ray, RenderTMin, RenderTMax, NoRec), 0, <<>>)}

\* ior * sin_theta > 1.0 (lines 478-482), decided exactly:
\* ratio^2 * (a - (d.n)^2) > a for the direction d of squared length a
CannotRefract(ray, rec) ==
    LET a == VDot(ray.direction, ray.direction)
        x == VDotNum(ray.direction, rec.normal)
        rn == IF rec.front_face THEN rec.mat.ior.q ELSE rec.mat.ior.p
        rd == IF rec.front_face THEN rec.mat.ior.p ELSE rec.mat.ior.q
    IN  NumLt(Rat(a * rd * rd, 1),
              NumScale(rn * rn, NumAdd(Rat(a, 1), NumNeg(NumSquare(x)))))

\* schlick without the square of r0: a faulty variant that C13 has to tell
\* from Schlick
SchlickNoSquare(cosine, ior) ==
    LET r0 == RatQuot(NumAdd(Rat(1, 1), NumNeg(ior)), NumAdd(Rat(1, 1), ior))
        m == NumAdd(Rat(1, 1), NumNeg(cosine))
    IN  NumAdd(r0, NumMul(NumAdd(Rat(1, 1), NumNeg(r0)),
                          NumMul(m, NumMul(NumSquare(m), NumSquare(m)))))

\* schlick (lines 399-403), std::pow(x, 5) as the fifth power
Schlick(cosine, ior) ==
    LET r == RatQuot(NumAdd(Rat(1, 1), NumNeg(ior)), NumAdd(Rat(1, 1), ior))
        r0 == NumSquare(r)
        m == NumAdd(Rat(1, 1), NumNeg(cosine))
    IN  NumAdd(r0, NumMul(NumAdd(Rat(1, 1), NumNeg(r0)),
                          NumMul(m, NumMul(NumSquare(m), NumSquare(m)))))

\* the refraction ratio `ior` of line 478
RefractionRatio(rec) ==
    IF rec.front_face THEN RatQuot(Rat(1, 1), rec.mat.ior) ELSE rec.mat.ior

\* cos_theta of line 480 for a ray whose direction has an integer length
CosTheta(ray, rec) ==
    LET len == ISqrt(VDot(ray.direction, ray.direction))
    IN  NumMin(NumDiv(NumNeg(VDotNum(ray.direction, rec.normal)), len), Rat(1, 1))

\* the test of line 484 without its first operand: a faulty variant that C24
\* has to tell from GlassReflects
GlassReflectsBySchlickOnly(ray, rec, draw) ==
    NumLt(draw, Schlick(CosTheta(ray, rec), RefractionRatio(rec)))

\* `cannot_refract || schlick(cos_theta, ior) > rand01()` (line 484): schlick
\* and rand01 are not evaluated when cannot_refract holds
GlassReflects(ray, rec, draw) ==
    IF CannotRefract(ray, rec)
    THEN TRUE
    ELSE NumLt(draw, Schlick(CosTheta(ray, rec), RefractionRatio(rec)))

\* what the GLASS branch computed (lines 477-489): the operands of the test of
\* line 484, the draw when one was made, and which of reflect and refract gave
\* the direction of the scattered ray
GlassDecision(ray, rec, draw) ==
    [seen |-> TRUE, cannot_refract |-> CannotRefract(ray, rec),
     front_face |-> rec.front_face, cos_theta |-> CosTheta(ray, rec),
     ior |-> rec.mat.ior,
     reflectance |-> IF CannotRefract(ray, rec) THEN NaN
                     ELSE Schlick(CosTheta(ray, rec), RefractionRatio(rec)),
     draw |-> IF CannotRefract(ray, rec) THEN NaN ELSE draw,
     direction |-> IF GlassReflects(ray, rec, draw) THEN "reflect" ELSE "refract"]

\* attenuation * color: the product with black is black
Attenuated(color) == IF color = "black" THEN "black" ELSE "lit"

RcTop == rcStack[Len(rcStack)]

RcPop == SubSeq(rcStack, 1, Len(rcStack) - 1)

RcCall(ray, depth) == [ray |-> ray, depth |-> depth, at |-> "enter"]

\* render's call ray_color(ray, scene, max_depth, use_bvh, tests) with tests = 0
\* (lines 655-657); draws and queries count from this call on
RenderSample ==
    /\ pc = "ready" /\ query = NoQuery /\ rc = RcIdle
    /\ \E ray \in RenderRays, max_depth \in 0..MaxDepth, use_bvh \in BOOLEAN :
          /\ rcStack' = <<RcCall(ray, max_depth)>>
          /\ rc' = [depth0 |-> max_depth, use_bvh |-> use_bvh, total_tests |-> 0,
                    draws |-> 0, queries |-> 0, null_deref |-> FALSE,
                    glass |-> NoGlass, metal |-> NoMetal,
                    result |-> "none", last |-> "call"]
    /\ UNCHANGED <<pc, spheres, bvh, nodes, indices, stack, ret, query>>

\* `depth < 0`: a faulty variant that C5 has to tell from DepthExhausted
DepthExhaustedNegativeOnly(depth) == depth < 0

\* `depth <= 0` (line 443)
DepthExhausted(depth) == depth <= 0

\* depth <= 0: black (line 443)
RayColorBase ==
    /\ rcStack # <<>> /\ RcTop.at = "enter"
    /\ DepthExhausted(RcTop.depth)
    /\ rc' = [rc EXCEPT !.result = "black", !.glass = NoGlass, !.metal = NoMetal, !.last = "depth0"]
    /\ rcStack' = RcPop
    /\ UNCHANGED <<pc, spheres, bvh, nodes, indices, stack, ret, query>>

\* the ray misses: the sky colour (lines 445-456)
RayColorMiss ==
    /\ rcStack # <<>> /\ RcTop.at = "enter"
    /\ ~DepthExhausted(RcTop.depth)
    /\ \E h \in RayColorHit(RcTop.ray, rc.use_bvh) :
          /\ ~h.hit
          /\ rc' = [rc EXCEPT !.total_tests = @ + h.tests, !.queries = @ + 1,
                              !.null_deref = @ \/ h.null_deref,
                              !.result = "sky", !.glass = NoGlass, !.metal = NoMetal, !.last = "miss"]
    /\ rcStack' = RcPop
    /\ UNCHANGED <<pc, spheres, bvh, nodes, indices, stack, ret, query>>

\* a call waiting for the call it made: it reads its own ray no more, only
\* the attenuation, so the frame keeps the depth alone
Waiting(frame) == [frame EXCEPT !.at = "wait", !.ray = "spent"]

\* a recursive call that passes depth unchanged: a faulty variant that C6 has
\* to tell from RcRecurse
RcRecurseSameDepth(scattered) ==
    Append(Append(RcPop, Waiting(RcTop)), RcCall(scattered, RcTop.depth))

\* the recursive call of line 492 for the scattered ray
RcRecurse(scattered) ==
    Append(Append(RcPop, Waiting(RcTop)), RcCall(scattered, RcTop.depth - 1))

\* a diffuse hit (lines 463-469, 492): rand_unit_vec draws three numbers per
\* round of its rejection loop; the scattered ray is any ray of the model
RayColorDiffuse ==
    /\ rcStack # <<>> /\ RcTop.at = "enter"
    /\ ~DepthExhausted(RcTop.depth)
    /\ \E h \in RayColorHit(RcTop.ray, rc.use_bvh) :
          /\ h.hit /\ h.rec.mat.type = "DIFFUSE"
          /\ \E rounds \in 1..MaxRejects, scattered \in RenderRays :
                /\ rc' = [rc EXCEPT !.total_tests = @ + h.tests, !.queries = @ + 1,
                              !.null_deref = @ \/ h.null_deref,
                                    !.draws = @ + 3 * rounds, !.glass = NoGlass, !.metal = NoMetal,
                                    !.last = "scatter"]
                /\ rcStack' = RcRecurse(scattered)
    /\ UNCHANGED <<pc, spheres, bvh, nodes, indices, stack, ret, query>>

\* `scattered.direction.dot(rec.normal) < 0`: a faulty variant that C23 has to
\* tell from MetalAbsorbed
MetalAbsorbedStrict(scattered, rec) ==
    NumLt(VDotNum(scattered.direction, rec.normal), Rat(0, 1))

\* `scattered.direction.dot(rec.normal) <= 0` (line 474)
MetalAbsorbed(scattered, rec) ==
    NumLe(VDotNum(scattered.direction, rec.normal), Rat(0, 1))

\* what the METAL branch computed (lines 471-474): the attenuation, the
\* product it tests and the outcome of the test
MetalDecision(scattered, rec) ==
    [seen |-> TRUE, mat |-> rec.mat, attenuation |-> rec.mat.albedo,
     dot |-> VDotNum(scattered.direction, rec.normal),
     absorbed |-> MetalAbsorbed(scattered, rec)]

\* a metal hit (lines 470-475, 492): absorbed, black, when the scattered
\* direction is not on the normal's side
RayColorMetal ==
    /\ rcStack # <<>> /\ RcTop.at = "enter"
    /\ ~DepthExhausted(RcTop.depth)
    /\ \E h \in RayColorHit(RcTop.ray, rc.use_bvh) :
          /\ h.hit /\ h.rec.mat.type = "METAL"
          /\ \E rounds \in 1..MaxRejects, scattered \in RenderRays :
                IF MetalAbsorbed(scattered, h.rec)
                THEN /\ rc' = [rc EXCEPT !.total_tests = @ + h.tests, !.queries = @ + 1,
                                         !.null_deref = @ \/ h.null_deref,
                                         !.draws = @ + 3 * rounds,
                                         !.result = "black", !.glass = NoGlass,
                                         !.metal = MetalDecision(scattered, h.rec),
                                         !.last = "absorbed"]
                     /\ rcStack' = RcPop
                ELSE /\ rc' = [rc EXCEPT !.total_tests = @ + h.tests, !.queries = @ + 1,
                                         !.null_deref = @ \/ h.null_deref,
                                         !.draws = @ + 3 * rounds, !.glass = NoGlass,
                                         !.metal = MetalDecision(scattered, h.rec),
                                         !.last = "scatter"]
                     /\ rcStack' = RcRecurse(scattered)
    /\ UNCHANGED <<pc, spheres, bvh, nodes, indices, stack, ret, query>>

\* a glass hit (lines 476-492): rand01 is drawn only when refraction is possible
RayColorGlass ==
    /\ rcStack # <<>> /\ RcTop.at = "enter"
    /\ ~DepthExhausted(RcTop.depth)
    /\ \E h \in RayColorHit(RcTop.ray, rc.use_bvh) :
          /\ h.hit /\ h.rec.mat.type = "GLASS"
          /\ \E scattered \in RenderRays, draw \in Draws :
                /\ rc' = [rc EXCEPT !.total_tests = @ + h.tests, !.queries = @ + 1,
                                    !.null_deref = @ \/ h.null_deref,
                                    !.draws = @ + (IF CannotRefract(RcTop.ray, h.rec)
                                                   THEN 0 ELSE 1),
                                    !.glass = GlassDecision(RcTop.ray, h.rec, draw),
                                    !.metal = NoMetal,
                                    !.last = "scatter"]
                /\ rcStack' = RcRecurse(scattered)
    /\ UNCHANGED <<pc, spheres, bvh, nodes, indices, stack, ret, query>>

\* the inner call returned: attenuation * its colour (line 492)
RayColorReturn ==
    /\ rcStack # <<>> /\ RcTop.at = "wait"
    /\ rc' = [rc EXCEPT !.result = Attenuated(rc.result), !.glass = NoGlass, !.metal = NoMetal,
                        !.last = "return"]
    /\ rcStack' = RcPop
    /\ UNCHANGED <<pc, spheres, bvh, nodes, indices, stack, ret, query>>

Next ==
    \/ GenerateScene
    \/ BuildBvh
    \/ BuildLeaf
    \/ BuildSplit
    \/ BuildRight
    \/ BuildMerge
    \/ BuildDone
    \/ Query
    \/ RenderSample
    \/ RayColorBase
    \/ RayColorMiss
    \/ RayColorDiffuse
    \/ RayColorMetal
    \/ RayColorGlass
    \/ RayColorReturn

Spec == Init /\ [][Next]_vars

--------------------------------------------------------------------------
(* Properties *)

\* C1: for every scene of spheres of positive radius, every ray and every
\* interval, BVH::intersect and Scene::intersect_brute agree: both hit or
\* both miss, and on a hit both report the same t.
C1_BvhAgreesWithBrute ==
    query.made =>
        /\ query.bvh.hit = query.brute.hit
        /\ query.bvh.hit => NumEq(query.bvh.rec.t, query.brute.rec.t)

\* C2: once the BVH is built, the box of every internal node contains the
\* boxes of both its children, and the box of every leaf is the bounding box
\* of the sphere the leaf holds.
C2_BoxesContainChildren ==
    pc = "ready" =>
        \A n \in 1..Len(nodes) :
            LET node == nodes[n]
            IN  IF node.is_leaf
                THEN /\ node.sphere_idx \in 0..(Len(spheres) - 1)
                     /\ node.bbox = BoundingBox(At(spheres, node.sphere_idx))
                ELSE /\ node.left \in 0..(Len(nodes) - 1)
                     /\ node.right \in 0..(Len(nodes) - 1)
                     /\ \A child \in {node.left, node.right}, i \in Axes :
                           /\ node.bbox.min_pt[i] <= At(nodes, child).bbox.min_pt[i]
                           /\ At(nodes, child).bbox.max_pt[i] <= node.bbox.max_pt[i]

C2_Witness ==
    /\ pc = "ready"
    /\ Len(nodes) >= 5
    /\ ~nodes[1].is_leaf
    /\ nodes[1].bbox # At(nodes, nodes[1].left).bbox
    /\ nodes[1].bbox # At(nodes, nodes[1].right).bbox

\* C3: a BVH built over zero spheres has an empty node arena, and a query on
\* it misses without visiting a node or testing a sphere.
C3_EmptySceneMisses ==
    /\ (pc = "ready" /\ spheres = <<>>) => nodes = <<>>
    /\ (query.made /\ spheres = <<>>) =>
          /\ ~query.bvh.hit
          /\ ~query.bvh.null_deref
          /\ query.bvh.visited = <<>>
          /\ query.bvh.tests = 0
          /\ query.bvh.rec = query.rec

C3_Witness == query.made /\ spheres = <<>> /\ bvh = "set"

\* C4: BVH construction terminates: every active call of build covers a
\* non-empty range strictly inside its caller's, a step of the build is always
\* possible until it is done (the call on top of the stack is either at its
\* entry with a leaf or a split to make, or has a child's result to take up),
\* and every split of a range of two or more
\* spheres returned a mid with start < mid < end, also when all centroids of
\* the range coincide.
C4_SplitStrictlyInside ==
    /\ \A k \in 1..Len(stack) :
          LET f == stack[k]
          IN  /\ 0 <= f.start /\ f.start < f.end /\ f.end <= Len(spheres)
              /\ f.at # "enter" =>
                    /\ f.end - f.start >= 2
                    /\ f.start < f.mid /\ f.mid < f.end
              /\ k > 1 => /\ stack[k - 1].at # "enter"
                          /\ stack[k - 1].start <= f.start
                          /\ f.end <= stack[k - 1].end
                          /\ f.end - f.start < stack[k - 1].end - stack[k - 1].start
    /\ Len(stack) <= Len(spheres)
    /\ pc = "building" =>
          /\ Len(nodes) <= 2 * Len(spheres) - 1
          /\ IF stack = <<>> THEN ret # -1
             ELSE \/ Top.at \in {"left", "right"} /\ ret # -1
                  \/ Top.at = "enter" /\ ret = -1 /\ IsLeafRange(Top.end - Top.start)
                  \/ /\ Top.at = "enter" /\ ret = -1
                     /\ Len(nodes) < 2 * Len(spheres)
                     /\ LET cb == CentroidBBox(spheres, indices, Top.start, Top.end)
                        IN  SahSplit(spheres, indices, Top.start, Top.end,
                                     SplitAxis(cb), cb) # {}

C4_Witness ==
    /\ pc = "building"
    /\ Len(stack) = 2
    /\ stack[1].at = "left"
    /\ stack[1].end - stack[1].start >= 5
    /\ \A i, j \in 1..Len(spheres) : spheres[i].center = spheres[j].center

\* C5: a ray_color call at depth 0 returns black at once: it issues no scene
\* query, leaves the caller's test counter alone and draws nothing from the
\* RNG.
C5_DepthZeroIsBlack ==
    [][(rcStack # <<>> /\ RcTop.at = "enter" /\ RcTop.depth = 0) =>
          /\ rcStack' = RcPop
          /\ rc'.result = "black"
          /\ rc'.queries = rc.queries
          /\ rc'.total_tests = rc.total_tests
          /\ rc'.draws = rc.draws]_vars

C5_Witness ==
    /\ rc.last = "depth0"
    /\ rcStack = <<>>
    /\ rc.depth0 = 0
    /\ spheres # <<>>

\* C6: ray_color called with depth d terminates: the calls nest at most d
\* levels below the first, each level one less in depth, at most d scene
\* queries are issued along the path, and the innermost call can always take
\* its next step (return black, answer its query, or take up the colour of
\* the call it made).
C6_RecursionBounded ==
    /\ Len(rcStack) <= rc.depth0 + 1
    /\ \A k \in 1..Len(rcStack) :
          /\ rcStack[k].depth = rc.depth0 - (k - 1)
          /\ k < Len(rcStack) => rcStack[k].at = "wait"
    /\ rc.queries <= rc.depth0
    /\ rcStack # <<>> =>
          /\ RcTop.at = "enter" => rc.queries = rc.depth0 - RcTop.depth
          /\ \/ RcTop.at = "wait"
             \/ RcTop.at = "enter" /\ DepthExhausted(RcTop.depth)
             \/ /\ RcTop.at = "enter"
                /\ RayColorHit(RcTop.ray, rc.use_bvh) # {}
                /\ \A h \in RayColorHit(RcTop.ray, rc.use_bvh) :
                      h.hit => h.rec.mat.type \in {"DIFFUSE", "METAL", "GLASS"}

C6_Witness ==
    /\ rcStack = <<>>
    /\ rc.last = "return"
    /\ rc.depth0 >= 2
    /\ rc.queries = rc.depth0

\* C7: generate_scene hands back a Scene whose bvh is still null; the BVH
\* exists once build_bvh has run, which main does before the first query, so
\* no intersect_bvh the program issues goes through a null BVH.
C7_BuiltBeforeQueried ==
    /\ pc = "generated" => bvh = "null"
    /\ pc = "ready" => bvh = "set"
    /\ query.made => ~query.bvh.null_deref
    /\ ~rc.null_deref

C7_Witness ==
    /\ query.made
    /\ spheres # <<>>
    /\ bvh = "set"
    /\ query.bvh.hit

\* C7 as the specification words it: the Scene that scene construction hands
\* back already has its BVH built.
C7_SceneReturnedWithBvh == pc = "generated" => bvh = "set"

\* C8: the traversals and ray_color leave the node arena and the sphere list
\* as they were: a step that answers a query or advances ray_color changes
\* neither.
C8_TraversalReadOnly ==
    [][(query' # query \/ rc' # rc \/ rcStack' # rcStack) =>
          /\ nodes' = nodes
          /\ spheres' = spheres
          /\ bvh' = bvh]_vars

C8_Witness ==
    /\ query.made
    /\ Len(nodes) >= 3
    /\ query.bvh.hit
    /\ Len(query.bvh.visited) >= 2

\* C9: every hit record has its normal against the ray, dot(direction,
\* normal) <= 0, and front_face is true exactly when the ray's direction has
\* a negative dot product with the outward normal (point - center) / radius;
\* the record a traversal returns is the record of one of the spheres.
C9_NormalAgainstRay ==
    query.made =>
        LET dir == query.ray.direction
            Hit(i) == SphereIntersect(spheres[i], query.ray, query.t_min, query.t_max,
                                      NoRec)
            Outward(i, rec) ==
                [a \in Axes |-> NumDiv(NumAdd(rec.point[a],
                                              Rat(-spheres[i].center[a], 1)),
                                       spheres[i].radius)]
        IN  /\ \A i \in 1..Len(spheres) :
                  Hit(i).hit =>
                     /\ NumLe(VDotNum(dir, Hit(i).rec.normal), Rat(0, 1))
                     /\ Hit(i).rec.front_face
                           <=> NumLt(VDotNum(dir, Outward(i, Hit(i).rec)), Rat(0, 1))
            /\ \A r \in {query.bvh, query.brute} :
                  r.hit =>
                     /\ NumLe(VDotNum(dir, r.rec.normal), Rat(0, 1))
                     /\ \E i \in 1..Len(spheres) : Hit(i).hit /\ Hit(i).rec = r.rec

C9_Witness ==
    /\ query.made
    /\ query.brute.hit
    /\ ~query.brute.rec.front_face
    /\ query.bvh.hit
    /\ query.bvh.rec = query.brute.rec

\* C10: a BVH built over two spheres is a root that is not a leaf with two
\* leaf children, one per sphere, and the root's box is the merge of the two
\* spheres' bounding boxes.
C10_TwoSpheresTree ==
    (pc = "ready" /\ Len(spheres) = 2) =>
        /\ Len(nodes) = 3
        /\ ~nodes[1].is_leaf
        /\ {nodes[1].left, nodes[1].right} = {1, 2}
        /\ nodes[2].is_leaf /\ nodes[3].is_leaf
        /\ {nodes[2].sphere_idx, nodes[3].sphere_idx} = {0, 1}
        /\ nodes[1].bbox = Merge(BoundingBox(spheres[1]), BoundingBox(spheres[2]))

C10_Witness ==
    /\ pc = "ready"
    /\ Len(spheres) = 2
    /\ Len(nodes) = 3
    /\ spheres[1].center # spheres[2].center
    /\ nodes[2].sphere_idx = 1

\* the boxes a finished build holds and merged on its way: the node boxes,
\* the spheres' boxes and the empty seed box
BuiltBoxes ==
    {nodes[n].bbox : n \in 1..Len(nodes)}
        \cup {BoundingBox(spheres[i]) : i \in 1..Len(spheres)}
        \cup {EmptyAABB}

\* C11: AABB::merge is commutative and associative and the empty box AABB()
\* is its identity on both sides, for every box within the sentinel range.
C11_MergeAlgebra ==
    pc = "ready" =>
        \A a, b \in BuiltBoxes :
            /\ Merge(a, b) = Merge(b, a)
            /\ Merge(a, EmptyAABB) = a
            /\ Merge(EmptyAABB, a) = a
            /\ \A c \in BuiltBoxes : Merge(Merge(a, b), c) = Merge(a, Merge(b, c))

C11_Witness ==
    /\ pc = "ready"
    /\ \E a, b, c \in BuiltBoxes \ {EmptyAABB} :
          /\ Merge(a, b) \notin {a, b}
          /\ Merge(Merge(a, b), c) \notin {Merge(a, b), c}

\* C12: for any two boxes merge can receive, the empty seed box included, the
\* surface area of the merged box is at least that of either input.
C12_MergeAreaMonotone ==
    pc = "ready" =>
        \A a, b \in BuiltBoxes :
            /\ SurfaceArea(Merge(a, b)) >= SurfaceArea(a)
            /\ SurfaceArea(Merge(a, b)) >= SurfaceArea(b)

\* C13: at normal incidence (cos_theta = 1) on a dielectric of index ior the
\* reflectance handed to the reflect/refract decision is ((1 - ior) / (1 +
\* ior))^2, which is 1/25 for ior = 3/2, when the ray enters (ratio 1 / ior)
\* and when it leaves (ratio ior).
C13_NormalIncidenceReflectance ==
    (rc.glass.seen /\ NumEq(rc.glass.cos_theta, Rat(1, 1))) =>
        /\ ~rc.glass.cannot_refract
        /\ NumEq(rc.glass.reflectance,
                 NumSquare(RatQuot(NumAdd(Rat(1, 1), NumNeg(rc.glass.ior)),
                                   NumAdd(Rat(1, 1), rc.glass.ior))))
        /\ rc.glass.ior = Rat(3, 2) => rc.glass.reflectance = Rat(1, 25)

C13_Witness ==
    /\ rc.glass.seen
    /\ NumEq(rc.glass.cos_theta, Rat(1, 1))
    /\ ~rc.glass.front_face
    /\ rc.glass.reflectance = Rat(1, 25)

\* C14: at an internal node whose box test passed, the call on the left child
\* comes next and gets the node's t_max; the call on the right child follows
\* the whole left subtree and gets the left hit's t if the left child hit,
\* else the node's t_max; a right hit is never farther than the left hit and
\* is the one returned; the node returns a child hit of smallest t.
C14_LeftFirstRightBounded ==
    (query.made /\ ~query.bvh.null_deref) =>
        \A i \in 1..Len(query.bvh.visited) :
            LET v == query.bvh.visited
                e == v[i]
                node == At(nodes, e.node)
            IN  (e.box /\ ~node.is_leaf) =>
                    LET L == IntersectNode(nodes, spheres, node.left, query.ray,
                                           query.t_min, e.t_max, NoRec, 0)
                        bound == IF L.hit THEN L.rec.t ELSE e.t_max
                        R == IntersectNode(nodes, spheres, node.right, query.ray,
                                           query.t_min, bound, NoRec, 0)
                        N == IntersectNode(nodes, spheres, e.node, query.ray,
                                           query.t_min, e.t_max, NoRec, 0)
                        j == i + 1 + Len(L.visited)
                    IN  /\ i + 1 <= Len(v)
                        /\ v[i + 1].node = node.left
                        /\ v[i + 1].t_max = e.t_max
                        /\ j <= Len(v)
                        /\ v[j].node = node.right
                        /\ v[j].t_max = bound
                        /\ (L.hit /\ R.hit) => NumLe(R.rec.t, L.rec.t)
                        /\ N.hit = (L.hit \/ R.hit)
                        /\ R.hit => N.rec = R.rec
                        /\ (L.hit /\ ~R.hit) => N.rec = L.rec
                        /\ (N.hit /\ L.hit) => NumLe(N.rec.t, L.rec.t)
                        /\ (N.hit /\ R.hit) => NumLe(N.rec.t, R.rec.t)

\* a query whose ray hits the left leaf and then, nearer, the right leaf
C14_Witness ==
    /\ query.made /\ ~query.bvh.null_deref
    /\ Len(query.bvh.visited) = 3
    /\ \A i \in 1..3 : query.bvh.visited[i].box
    /\ NumLt(query.bvh.visited[3].t_max, query.bvh.visited[1].t_max)
    /\ query.bvh.hit
    /\ NumLt(query.bvh.rec.t, query.bvh.visited[3].t_max)

\* the nodes below node n
RECURSIVE Descendants(_, _)
Descendants(nds, n) ==
    IF n < 0 \/ At(nds, n).is_leaf THEN {}
    ELSE ({At(nds, n).left, At(nds, n).right} \ {-1})
             \cup Descendants(nds, At(nds, n).left)
             \cup Descendants(nds, At(nds, n).right)

\* C15: a call whose box test fails is the only call made at or below its
\* node: no node below it is in the trace (so no sphere below it is tested),
\* no node is in the trace twice, and the test counter is the number of calls.
C15_FailedBoxPrunes ==
    (query.made /\ ~query.bvh.null_deref) =>
        LET v == query.bvh.visited
        IN  /\ query.bvh.tests = Len(v)
            /\ \A i, j \in 1..Len(v) : v[i].node = v[j].node => i = j
            /\ \A i \in 1..Len(v) :
                  ~v[i].box => \A j \in 1..Len(v) :
                                   v[j].node \notin Descendants(nodes, v[i].node)

\* a query whose ray misses the box of an internal root
C15_Witness ==
    /\ query.made /\ ~query.bvh.null_deref
    /\ Len(nodes) >= 3
    /\ Len(query.bvh.visited) = 1
    /\ ~query.bvh.visited[1].box
    /\ Descendants(nodes, 0) # {}
    /\ query.bvh.tests = 1

\* C20: the slab test takes the axes in the order x, y, z and answers miss at
\* the first axis whose narrowing leaves t_max <= t_min, the later axes not
\* looked at; it answers hit only after all three axes; and its answer is the
\* one that narrowing over all three axes and one test at the end gives.
C20_SlabStopsAtFirstEmptyAxis ==
    (query.made /\ ~query.bvh.null_deref) =>
        \A i \in 1..Len(query.bvh.visited) :
            LET e == query.bvh.visited[i]
                box == At(nodes, e.node).bbox
                all == NarrowTo(box, query.ray, 3, query.t_min, e.t_max)
                at == NarrowTo(box, query.ray, e.axes, query.t_min, e.t_max)
            IN  /\ e.axes \in 1..3
                /\ e.box = ~NumLe(all.t_max, all.t_min)
                /\ e.box => e.axes = 3
                /\ ~e.box => NumLe(at.t_max, at.t_min)
                /\ \A k \in 1..(e.axes - 1) :
                      LET before == NarrowTo(box, query.ray, k, query.t_min, e.t_max)
                      IN  ~NumLe(before.t_max, before.t_min)

\* a box test answered miss at the first axis
C20_Witness ==
    /\ query.made /\ ~query.bvh.null_deref
    /\ \E i \in 1..Len(query.bvh.visited) :
          ~query.bvh.visited[i].box /\ query.bvh.visited[i].axes = 1

\* C20 as stated: every box test gets to all three axes
C20_AllAxesProcessed ==
    (query.made /\ ~query.bvh.null_deref) =>
        \A i \in 1..Len(query.bvh.visited) : query.bvh.visited[i].axes = 3

\* C16: after a build over n >= 1 spheres every leaf holds one sphere index of
\* 0..n-1 and that sphere's bounding box, every sphere index is held by
\* exactly one leaf, and every internal node holds the index -1.
C16_LeavesMatchSpheres ==
    (pc = "ready" /\ Len(spheres) >= 1) =>
        LET leaves == {n \in 1..Len(nodes) : nodes[n].is_leaf}
        IN  /\ \A n \in leaves :
                  /\ nodes[n].sphere_idx \in 0..(Len(spheres) - 1)
                  /\ nodes[n].bbox = BoundingBox(At(spheres, nodes[n].sphere_idx))
                  /\ nodes[n].left = -1 /\ nodes[n].right = -1
            /\ \A i \in 0..(Len(spheres) - 1) :
                  Cardinality({n \in leaves : nodes[n].sphere_idx = i}) = 1
            /\ Cardinality(leaves) = Len(spheres)
            /\ \A n \in (1..Len(nodes)) \ leaves : nodes[n].sphere_idx = -1

\* a finished build over five or more spheres whose leaves hold the spheres
\* in another order than the scene's
C16_Witness ==
    /\ pc = "ready"
    /\ Len(spheres) >= 5
    /\ Len(nodes) = 2 * Len(spheres) - 1
    /\ \E a, b \in 1..Len(nodes) :
          /\ a < b /\ nodes[a].is_leaf /\ nodes[b].is_leaf
          /\ nodes[a].sphere_idx > nodes[b].sphere_idx

\* the frames of build that have just split their range on the bucketed path
\* of sah_split (more than four spheres, centroid extent not below epsilon):
\* the call for the left range is on top of them and has not started
BucketedFrames ==
    {k \in 1..(Len(stack) - 1) :
        /\ k = Len(stack) - 1
        /\ stack[k].at = "left"
        /\ Top.at = "enter" /\ Top.start = stack[k].start /\ Top.end = stack[k].mid
        /\ stack[k].end - stack[k].start > 4
        /\ LET cb == CentroidBBox(spheres, indices, stack[k].start, stack[k].end)
               axis == SplitAxis(cb)
           IN  ~BelowEpsilon(cb.max_pt[axis + 1] - cb.min_pt[axis + 1])}

C19_LongestAxisChosen ==
    \A k \in 1..Len(stack) :
        LET f == stack[k]
            cb == CentroidBBox(spheres, indices, f.start, f.end)
            extent == VSub(cb.max_pt, cb.min_pt)
        IN  IF f.at = "enter" THEN f.axis = -1
            ELSE /\ f.end - f.start >= 2
                 /\ f.axis \in 0..2
                 /\ \A a \in 0..2 :
                       /\ extent[f.axis + 1] >= extent[a + 1]
                       /\ a < f.axis => extent[f.axis + 1] > extent[a + 1]

\* a split of a range whose centres spread equally far, and farthest, on two
\* axes, made on the lower of the two
C19_Witness ==
    \E k \in 1..Len(stack) :
        LET f == stack[k]
            cb == CentroidBBox(spheres, indices, f.start, f.end)
            extent == VSub(cb.max_pt, cb.min_pt)
        IN  /\ f.at = "left"
            /\ f.axis = 0
            /\ extent[1] > 0
            /\ extent[3] = extent[1]

\* the frames of build that have just split their range by one of the
\* fallbacks of sah_split that TLC can tell from the state: four spheres or
\* fewer, or a centroid extent below epsilon on the chosen axis
FallbackFrames ==
    {k \in 1..(Len(stack) - 1) :
        /\ k = Len(stack) - 1
        /\ stack[k].at = "left"
        /\ Top.at = "enter" /\ Top.start = stack[k].start /\ Top.end = stack[k].mid
        /\ LET cb == CentroidBBox(spheres, indices, stack[k].start, stack[k].end)
           IN  \/ stack[k].end - stack[k].start <= 4
               \/ BelowEpsilon(cb.max_pt[stack[k].axis + 1] - cb.min_pt[stack[k].axis + 1])}

\* C18: a fallback split is at start + count / 2 and leaves every sphere left
\* of mid with a centre coordinate on the chosen axis <= that of every sphere
\* right of mid.
C18_FallbackSplitsSortedMedian ==
    \A k \in FallbackFrames :
        LET f == stack[k]
            key(j) == At(spheres, At(indices, j)).center[f.axis + 1]
        IN  /\ f.mid = f.start + (f.end - f.start) \div 2
            /\ \A i \in f.start..(f.mid - 1), j \in f.mid..(f.end - 1) : key(i) <= key(j)

\* C21: no box test of a query takes the reciprocal of a direction component
\* that is zero.
C21_NoZeroReciprocal ==
    (query.made /\ ~query.bvh.null_deref) =>
        \A i \in 1..Len(query.bvh.visited) :
            ZeroDivisions(query.ray, query.bvh.visited[i].axes) = {}

\* C22: on the bucketed path no cost is computed with a division by a total
\* surface area of zero.
C22_NoZeroAreaDivision ==
    \A k \in BucketedFrames :
        LET f == stack[k]
            cb == CentroidBBox(spheres, indices, f.start, f.end)
            buckets == Buckets(spheres, indices, f.start, f.end, SplitAxis(cb), cb)
        IN  \A i \in 0..(NUM_BUCKETS - 2) : SplitCost(buckets, i).area_total # 0

\* C23: on a metal hit ray_color returns black without a recursive call
\* exactly when dot(scattered.direction, rec.normal) <= 0; otherwise it makes
\* one recursive call, for depth - 1, and the attenuation it keeps for the
\* product is the albedo of the metal that was hit
C23_MetalAbsorbsOrRecursesOnce ==
    [][rc'.metal.seen =>
          IF NumLe(rc'.metal.dot, Rat(0, 1))
          THEN /\ rc'.result = "black"
               /\ rcStack' = SubSeq(rcStack, 1, Len(rcStack) - 1)
          ELSE /\ Len(rcStack') = Len(rcStack) + 1
               /\ SubSeq(rcStack', 1, Len(rcStack) - 1) = SubSeq(rcStack, 1, Len(rcStack) - 1)
               /\ rcStack'[Len(rcStack)].at = "wait"
               /\ rcStack'[Len(rcStack')].at = "enter"
               /\ rcStack'[Len(rcStack')].depth = rcStack[Len(rcStack)].depth - 1
               /\ rc'.metal.mat.type = "METAL"
               /\ rc'.metal.attenuation = rc'.metal.mat.albedo]_vars

\* a metal hit whose scattered direction is perpendicular to the normal: black
C23_Witness ==
    /\ rc.metal.seen
    /\ NumEq(rc.metal.dot, Rat(0, 1))
    /\ rc.last = "absorbed"
    /\ rc.result = "black"

\* C24: on a glass hit, with ratio = 1/ior on a front face and ior on a back
\* face, the scattered direction is the reflection whenever
\* ratio * sin_theta > 1, whatever the draw; the refraction is chosen only when
\* ratio * sin_theta <= 1 and the draw is not below the Schlick reflectance.
\* sin_theta is sqrt(1 - cos_theta^2), so ratio * sin_theta > 1 is
\* ratio^2 * (1 - cos_theta^2) > 1
C24_TotalReflectionAlwaysReflects ==
    rc.glass.seen =>
        LET ratio == IF rc.glass.front_face
                     THEN RatQuot(Rat(1, 1), rc.glass.ior) ELSE rc.glass.ior
            sin2 == NumAdd(Rat(1, 1), NumNeg(NumSquare(rc.glass.cos_theta)))
            beyond == NumLt(Rat(1, 1), NumMul(NumSquare(ratio), sin2))
        IN  /\ beyond => rc.glass.direction = "reflect"
            /\ rc.glass.direction = "refract" =>
                  /\ ~beyond
                  /\ ~NumLt(rc.glass.draw, Schlick(rc.glass.cos_theta, ratio))

\* a back-face hit inside the glass beyond the critical angle: reflected
C24_Witness ==
    /\ rc.glass.seen
    /\ ~rc.glass.front_face
    /\ NumLt(Rat(1, 1),
             NumMul(NumSquare(rc.glass.ior),
                    NumAdd(Rat(1, 1), NumNeg(NumSquare(rc.glass.cos_theta)))))
    /\ rc.glass.direction = "reflect"

\* a glass hit that refracts: a draw equal to the reflectance
C24_WitnessRefract ==
    /\ rc.glass.seen
    /\ rc.glass.direction = "refract"
    /\ NumEq(rc.glass.draw, rc.glass.reflectance)

\* the nodes that name node j as their left or their right child, one entry
\* per link
ParentLinks(j) ==
    {<<i, side>> \in (0..(Len(nodes) - 1)) \X {"left", "right"} :
        /\ ~At(nodes, i).is_leaf
        /\ (IF side = "left" THEN At(nodes, i).left ELSE At(nodes, i).right) = j}

\* C25: after a build over n >= 1 spheres the arena holds exactly 2n - 1
\* nodes with the root at index 0; every internal node has two valid child
\* indices, both greater than its own, the left one its own index + 1; every
\* node but the root is the child of exactly one node, the root of none
C25_ArenaIsBinaryTree ==
    (pc = "ready" /\ spheres # <<>>) =>
        /\ Len(nodes) = 2 * Len(spheres) - 1
        /\ ParentLinks(0) = {}
        /\ \A i \in 0..(Len(nodes) - 1) :
              ~At(nodes, i).is_leaf =>
                 /\ At(nodes, i).left = i + 1
                 /\ At(nodes, i).right > i + 1
                 /\ At(nodes, i).right < Len(nodes)
        /\ \A j \in 1..(Len(nodes) - 1) : Cardinality(ParentLinks(j)) = 1

\* a finished tree over the largest scene with an internal node as a right
\* child
C25_Witness ==
    /\ pc = "ready"
    /\ Len(spheres) = MaxSpheres
    /\ Len(nodes) = 2 * MaxSpheres - 1
    /\ \E i \in 0..(Len(nodes) - 1) :
          /\ ~At(nodes, i).is_leaf
          /\ ~At(nodes, At(nodes, i).right).is_leaf
          /\ ~At(nodes, At(nodes, i).left).is_leaf

\* C26: on the bucketed path every candidate split has at least one sphere on
\* each side (cnt0 >= 1, cnt1 >= 1, cnt0 + cnt1 = count); the partition at
\* split_val puts on the left exactly the spheres of the buckets
\* 0..min_bucket, so mid - start is the chosen candidate's cnt0 and the
\* correction for a one-sided partition is not needed
C26_PartitionMatchesBuckets ==
    \A k \in BucketedFrames :
        LET f == stack[k]
            cb == CentroidBBox(spheres, indices, f.start, f.end)
            axis == SplitAxis(cb)
            lo == cb.min_pt[axis + 1]
            extent == cb.max_pt[axis + 1] - lo
            buckets == Buckets(spheres, indices, f.start, f.end, axis, cb)
            key(j) == At(spheres, At(indices, j)).center[axis + 1]
        IN  \E chosen \in {MinBucket(buckets)} :
               /\ \A i \in 0..(NUM_BUCKETS - 2) : \E c \in {SplitCost(buckets, i)} :
                     c.cnt0 >= 1 /\ c.cnt1 >= 1 /\ c.cnt0 + c.cnt1 = f.end - f.start
               /\ \A j \in f.start..(f.end - 1) :
                     (j < f.mid) <=> (BucketOf(key(j), lo, extent) <= chosen)
               /\ f.mid - f.start = SplitCost(buckets, chosen).cnt0
               /\ \E below \in {Cardinality({j \in f.start..(f.end - 1) :
                                    NumLt(Rat(key(j), 1), SplitVal(lo, chosen, extent))})} :
                     below # 0 /\ below # f.end - f.start

\* C27: while a call build(indices, start, end), with the sah_split it makes,
\* is active, no step changes an entry of indices outside [start, end), and
\* indices is a permutation of 0..n-1 throughout the construction
C27_ReordersOnlyOwnRange ==
    [][/\ pc' = "building" =>
             /\ Len(indices') = Len(spheres')
             /\ {indices'[j] : j \in 1..Len(indices')} = 0..(Len(spheres') - 1)
       /\ (pc = "building" /\ pc' = "building") =>
             \A k \in 1..Len(stack) :
                 \A j \in 0..(Len(indices) - 1) :
                     (j < stack[k].start \/ j >= stack[k].end) =>
                         At(indices', j) = At(indices, j)]_vars

\* a call of build over a range that is not the whole of indices has split
\* and left its range in another order than the ascending one
C27_Witness ==
    /\ pc = "building"
    /\ \E k \in 1..Len(stack) :
          /\ stack[k].at = "left"
          /\ stack[k].start > 0
          /\ stack[k].end - stack[k].start >= 2
          /\ \E j \in stack[k].start..(stack[k].end - 2) :
                At(indices, j) > At(indices, j + 1)
          /\ \A j \in 0..(stack[k].start - 1) : At(indices, j) = j

\* the real roots within [t_min, t_max] of the quadratic
\* a t^2 + 2 half_b t + c = 0 of sphere s and the ray: the values
\* (-half_b +- sqrt(half_b^2 - a c)) / a, for which the quadratic is checked
\* to vanish
RootsInRange(s, ray, t_min, t_max) ==
    LET oc == VSub(ray.origin, s.center)
        a == VDot(ray.direction, ray.direction)
        half_b == VDot(oc, ray.direction)
        c == VDot(oc, oc) - s.radius * s.radius
        value(t) == NumAdd(NumScale(a, NumSquare(t)),
                           NumAdd(NumScale(2 * half_b, t), Rat(c, 1)))
    IN  IF half_b * half_b - a * c < 0 THEN {}
        ELSE {t \in {Surd(-half_b, -1, half_b * half_b - a * c, a),
                     Surd(-half_b, 1, half_b * half_b - a * c, a)} :
                 /\ NumEq(value(t), Rat(0, 1))
                 /\ NumLe(t_min, t) /\ NumLe(t, t_max)}

\* C28: Sphere::intersect returns a hit exactly when the quadratic of the ray
\* and the sphere has a real root in the closed interval [t_min, t_max], and
\* rec.t is then the least such root; the brute-force query of a scene of one
\* sphere is that call
C28_HitIsLeastRootInRange ==
    query.made =>
        \A i \in 1..Len(spheres) :
            \E r \in {SphereIntersect(spheres[i], query.ray, query.t_min, query.t_max,
                                      NoRec)} :
            \E roots \in {RootsInRange(spheres[i], query.ray, query.t_min, query.t_max)} :
                /\ r.hit <=> roots # {}
                /\ r.hit => /\ r.rec.t \in roots
                            /\ \A t \in roots : NumLe(r.rec.t, t)
                /\ Len(spheres) = 1 =>
                      /\ query.brute.hit = r.hit
                      /\ r.hit => query.brute.rec.t = r.rec.t

\* a query of one sphere from inside it: the near root is before t_min, the
\* far root is the hit
C28_Witness ==
    /\ query.made
    /\ Len(spheres) = 1
    /\ query.brute.hit
    /\ Cardinality(RootsInRange(spheres[1], query.ray, Rat(-1000, 1), RenderTMax)) = 2
    /\ Cardinality(RootsInRange(spheres[1], query.ray, query.t_min, query.t_max)) = 1
    /\ \A t \in RootsInRange(spheres[1], query.ray, Rat(-1000, 1), RenderTMax) :
          NumLe(t, query.brute.rec.t)

\* a query of one sphere by a ray that touches it: one root, the hit
C28_WitnessTangent ==
    /\ query.made
    /\ Len(spheres) = 1
    /\ query.brute.hit
    /\ Cardinality(RootsInRange(spheres[1], query.ray, Rat(-1000, 1), RenderTMax)) = 1

\* C29: whenever Sphere::intersect, BVH::intersect or Scene::intersect_brute
\* answers a miss, the caller's HitRecord is as it was before the call
C29_MissLeavesRecord ==
    query.made =>
        /\ ~query.brute.hit => query.brute.rec = query.rec
        /\ (~query.bvh.null_deref /\ ~query.bvh.hit) => query.bvh.rec = query.rec
        /\ \A i \in 1..Len(spheres) :
              \E r \in {SphereIntersect(spheres[i], query.ray, query.t_min, query.t_max,
                                        query.rec)} :
                  ~r.hit => r.rec = query.rec

\* a miss of both traversals below the root of a tree of three or more nodes,
\* the caller's record being one an earlier query filled
C29_Witness ==
    /\ query.made
    /\ query.rec = StaleRec
    /\ ~query.bvh.null_deref
    /\ ~query.bvh.hit /\ ~query.brute.hit
    /\ Len(query.bvh.visited) >= 3
    /\ query.bvh.rec = StaleRec

\* C30: for a ray whose direction has no zero component, every box of the
\* tree and every interval the traversal used, AABB::intersect, which answers
\* false at the first axis where t_max <= t_min, gives the answer of the
\* variant that narrows the interval over all three axes and tests
\* t_max <= t_min once at the end
C30_EarlyExitEqualsTestAtEnd ==
    (query.made /\ ~query.bvh.null_deref
        /\ \A a \in Axes : query.ray.direction[a] # 0) =>
        /\ \A n \in 1..Len(nodes) :
              \A t \in {query.t_max} \cup
                       {query.bvh.visited[i].t_max : i \in 1..Len(query.bvh.visited)} :
                  \E end \in {NarrowTo(nodes[n].bbox, query.ray, 3, query.t_min, t)} :
                      AABBIntersect(nodes[n].bbox, query.ray, query.t_min, t)
                          = ~NumLe(end.t_max, end.t_min)
        /\ \A i \in 1..Len(query.bvh.visited) :
              \E end \in {NarrowTo(At(nodes, query.bvh.visited[i].node).bbox, query.ray, 3,
                                   query.t_min, query.bvh.visited[i].t_max)} :
                  query.bvh.visited[i].box = ~NumLe(end.t_max, end.t_min)

\* a ray with no zero direction component whose box test answered miss
\* before the last axis, the interval not empty after the first axis
C30_Witness ==
    /\ query.made /\ ~query.bvh.null_deref
    /\ \A a \in Axes : query.ray.direction[a] # 0
    /\ \E i \in 1..Len(query.bvh.visited) :
          /\ ~query.bvh.visited[i].box
          /\ query.bvh.visited[i].axes = 2

==========================================================================
